---- MODULE Spec2Model ----
(***************************************************************************)
(* A model of the side panel handling of the application shell             *)
(* (SidePanelHandler, TheiaDockPanel, SideTabBar), of LabelProvider, of    *)
(* GitDiffService.getRangeArg, and of the scroll synchronisation of the    *)
(* preview (PreviewWidget, MarkdownPreviewHandler).                        *)
(*                                                                         *)
(* One side panel handler is modelled together with its environment: the   *)
(* widgets that are not children of its dock panel live "elsewhere" (the   *)
(* main area or another side panel).  The handlers of globalHandlers only  *)
(* interact through the parent of a widget and through the loops of        *)
(* showAllSideBars / resetAllSideBars, which run the same code on every    *)
(* handler, so the other handlers are part of that environment.  The       *)
(* container is attached to the shell.                                     *)
(*                                                                         *)
(* Indices are 0-based as in the source; -1 is "no index".                 *)
(***************************************************************************)
EXTENDS Integers, Sequences, FiniteSets, TLC

\* ---------------------------------------------------------------- bounds
NumWidgets == 2
MaxRank == 2
MaxPendingFrames == 1

Widgets == 1..NumWidgets
\* null / undefined for widgets and titles; also the empty (falsy) id
Null == 0
\* the ranks a caller passes to addWidget
Ranks == 0..MaxRank
\* the value of rankProperty that `create: () => undefined` yields
Undefined == -1
\* widget.id of widget w is w; NumWidgets + 1 is an id no widget has
Ids == 1..(NumWidgets + 1)

\* ------------------------------------------------------- array helpers
At(seq, i) == seq[i + 1]

IndexOf(seq, x) ==
    IF \E k \in 1..Len(seq) : seq[k] = x
    THEN (CHOOSE k \in 1..Len(seq) : seq[k] = x /\ \A m \in 1..(k - 1) : seq[m] # x) - 1
    ELSE -1

Contains(seq, x) == \E k \in 1..Len(seq) : seq[k] = x

ArrayInsert(seq, j, x) == SubSeq(seq, 1, j) \o <<x>> \o SubSeq(seq, j + 1, Len(seq))

ArrayRemoveAt(seq, i) == SubSeq(seq, 1, i) \o SubSeq(seq, i + 2, Len(seq))

ArrayMove(seq, i, j) == ArrayInsert(ArrayRemoveAt(seq, i), j, At(seq, i))

Min(a, b) == IF a < b THEN a ELSE b

Max(a, b) == IF a > b THEN a ELSE b

\* ----------------------------------------------------------- the state
VARIABLES
    titles,               \* tabBar.titles: the owners of the side bar's tabs, in tab order
    currentIndex,         \* tabBar.currentIndex
    previousTitle,        \* tabBar._previousTitle (used by 'select-previous-tab')
    lastActiveTabIndex,   \* SidePanelHandler.lastActiveTabIndex
    dockTitles,           \* the widgets of dockPanel, in the order of its single tab area
    dockCurrent,          \* index of the dock panel's selected widget
    tabBarHidden,         \* tabBar.isHidden
    dockHidden,           \* dockPanel.isHidden
    containerHidden,      \* container.isHidden
    collapsed,            \* container.hasClass(COLLAPSED_CLASS)
    rank,                 \* SidePanelHandler.rankProperty, per widget
    thrown,               \* an exception escaped a handler
    lastCurrent,          \* history: the widget whose tab was most recently made current
    dragKind,             \* "none", "tab" (side bar tab detached) or "dock" (TheiaDockPanel._drag)
    draggedWidget,        \* the widget the drag's factory yields
    closureState,         \* previousState captured by onTabDetachRequested
    previousSideBarState, \* TheiaDockPanel.previousSideBarState
    framesPending,        \* requestAnimationFrame callbacks of the _drag setter not yet run
    lastOp,               \* history: the last operation, its argument and return value
    givenRank,            \* history: the rank passed to addWidget for a widget of the panel
    addOrder,             \* history: the widgets of the panel in the order they were added
    contributions,        \* contributionProvider.getContributions(), as they answer for one element
    labelCall,            \* the method of LabelProvider that was called, "none" before
    labelResult,          \* what it returned, and the contribution that gave the answer
    gitOptions,           \* the GitLogOptions passed to getRangeArg
    gitRange,             \* what getRangeArg returned
    gitDone,              \* getRangeArg has returned
    mouseDownTabIndex,    \* SideTabBar.mouseDownTabIndex
    tabDragData,          \* TabBar._dragData of the side bar (index -1: null)
    docListeners,         \* the event types the bar listens to on the document while pressed
    buttonsDown,          \* the mouse buttons that are held down
    pointer,              \* where the mouse pointer is: the tab slot under it, and whether on a close icon
    mouseEvent,           \* history: the last event the bar handled and what its handling did
    qualified,            \* history: the tab index a left mouseup must hit to count as a click on the current tab
    now,                  \* the time, in units of TickMs
    preventScrollNotification, \* PreviewWidget.preventScrollNotification
    scrollThrottle,       \* lastExec of throttle(50, ...) around the scroll callback
    revealThrottle,       \* lastExec of throttle(50, ...) around internalRevealForSourceLine
    timers,               \* the pending timers, in the order they were set
    pendingScroll,        \* the scroll event not yet dispatched: what caused it, and when
    didScrollFor,         \* history: the causes of the scrolls didScroll was called for
    content,              \* the 'line' elements of the rendered node, in document order
    offset,               \* the offset (scrollTop, or offsetTop of a double click)
    hasResource,          \* PreviewWidget.resource is defined
    previewCall,          \* the handler of PreviewWidget that ran, "none" before
    sourceLine,           \* what getSourceLineForOffset returned to it
    fired                 \* the event it fired, if any

panelVars == <<titles, currentIndex, previousTitle, lastActiveTabIndex, dockTitles,
               dockCurrent, tabBarHidden, dockHidden, containerHidden, collapsed,
               rank, thrown, lastCurrent>>

dragVars == <<dragKind, draggedWidget, closureState, previousSideBarState, framesPending>>

rankHistory == <<givenRank, addOrder>>

labelVars == <<contributions, labelCall, labelResult>>

gitVars == <<gitOptions, gitRange, gitDone>>

mouseVars == <<mouseDownTabIndex, tabDragData, docListeners, buttonsDown, pointer,
               mouseEvent, qualified>>

offsetVars == <<content, offset, hasResource, previewCall, sourceLine, fired>>

previewVars == <<now, preventScrollNotification, scrollThrottle, revealThrottle,
                 timers, pendingScroll, didScrollFor, offsetVars>>

\* what the side panel's operations leave alone
unrelated == <<rankHistory, labelVars, gitVars, mouseVars, previewVars>>

vars == <<panelVars, dragVars, lastOp, rankHistory, labelVars, gitVars, mouseVars, previewVars>>

\* The panel as one value, for the operators below.
St ==
    [titles |-> titles, currentIndex |-> currentIndex, previousTitle |-> previousTitle,
     lastActiveTabIndex |-> lastActiveTabIndex, dockTitles |-> dockTitles,
     dockCurrent |-> dockCurrent, tabBarHidden |-> tabBarHidden, dockHidden |-> dockHidden,
     containerHidden |-> containerHidden, collapsed |-> collapsed, rank |-> rank,
     thrown |-> thrown, lastCurrent |-> lastCurrent]

SetSt(t) ==
    /\ titles' = t.titles
    /\ currentIndex' = t.currentIndex
    /\ previousTitle' = t.previousTitle
    /\ lastActiveTabIndex' = t.lastActiveTabIndex
    /\ dockTitles' = t.dockTitles
    /\ dockCurrent' = t.dockCurrent
    /\ tabBarHidden' = t.tabBarHidden
    /\ dockHidden' = t.dockHidden
    /\ containerHidden' = t.containerHidden
    /\ collapsed' = t.collapsed
    /\ rank' = t.rank
    /\ thrown' = t.thrown
    /\ lastCurrent' = t.lastCurrent

\* tabBar.currentTitle
currentTitle(s) == IF s.currentIndex >= 0 THEN At(s.titles, s.currentIndex) ELSE Null

\* ------------------------------------------------ the dock panel's layout
\* DockPanel.selectWidget: throws when the widget is not in the dock panel.
dockSelectWidget(s, w) ==
    IF Contains(s.dockTitles, w)
    THEN [s EXCEPT !.dockCurrent = IndexOf(s.dockTitles, w)]
    ELSE [s EXCEPT !.thrown = TRUE]

\* DockLayout.addWidget in 'single-document' mode: the widget's tab goes after
\* the current tab of the single tab area; the first widget gets selected
\* (insertBehavior 'select-tab-if-needed').
dockInsert(s, w) ==
    IF Len(s.dockTitles) = 0
    THEN [s EXCEPT !.dockTitles = <<w>>, !.dockCurrent = 0]
    ELSE [s EXCEPT !.dockTitles = ArrayInsert(s.dockTitles, s.dockCurrent + 1, w)]

\* DockLayout.removeWidget (removeBehavior 'select-tab-after').
dockRemove(s, w) ==
    LET i == IndexOf(s.dockTitles, w)
        rest == ArrayRemoveAt(s.dockTitles, i)
        ci == s.dockCurrent
    IN  [s EXCEPT !.dockTitles = rest,
                  !.dockCurrent = IF ci # i THEN (IF ci > i THEN ci - 1 ELSE ci)
                                  ELSE IF Len(rest) = 0 THEN -1
                                  ELSE Min(i, Len(rest) - 1)]

\* ------------------------------------------------------ SidePanelHandler
refreshVisibility(s) ==
    LET hideSideBar == Len(s.titles) = 0
        hideDockPanel == s.currentIndex = -1
        t == [s EXCEPT !.collapsed = hideDockPanel,
                       !.containerHidden = hideSideBar /\ hideDockPanel,
                       !.tabBarHidden = hideSideBar,
                       !.dockHidden = hideDockPanel]
    IN  IF hideDockPanel THEN t ELSE dockSelectWidget(t, currentTitle(s))

onCurrentTabChanged(s, ci) ==
    refreshVisibility(
        IF ci >= 0
        THEN [s EXCEPT !.lastActiveTabIndex = ci, !.lastCurrent = At(s.titles, ci)]
        ELSE s)

\* TabBar `set currentIndex`, which emits currentChanged.
setCurrentIndex(s, v) ==
    LET value == IF v < 0 \/ v >= Len(s.titles) THEN -1 ELSE v
    IN  IF s.currentIndex = value
        THEN s
        ELSE onCurrentTabChanged(
                 [s EXCEPT !.currentIndex = value, !.previousTitle = currentTitle(s)],
                 value)

\* TabBar `set currentTitle`.
setCurrentTitle(s, w) ==
    setCurrentIndex(s, IF w = Null THEN -1 ELSE IndexOf(s.titles, w))

\* TabBar.insertTab of the side bar (insertBehavior 'none').
TabBarInsertTab(s, index, w) ==
    LET i == IndexOf(s.titles, w)
        j == Max(0, Min(index, Len(s.titles)))
        ci == s.currentIndex
    IN  IF i = -1
        THEN [s EXCEPT !.titles = ArrayInsert(s.titles, j, w),
                       !.currentIndex = IF ci >= j THEN ci + 1 ELSE ci]
        ELSE LET k == IF j = Len(s.titles) THEN j - 1 ELSE j
             IN  IF i = k
                 THEN s
                 ELSE [s EXCEPT !.titles = ArrayMove(s.titles, i, k),
                                !.currentIndex = IF ci = i THEN k
                                                 ELSE IF ci < i /\ ci >= k THEN ci + 1
                                                 ELSE IF ci > i /\ ci <= k THEN ci - 1
                                                 ELSE ci]

\* TabBar.removeTab of the side bar (removeBehavior 'select-previous-tab').
TabBarRemoveTab(s, w) ==
    LET i == IndexOf(s.titles, w)
        rest == ArrayRemoveAt(s.titles, i)
        ci == s.currentIndex
        pt == IF s.previousTitle = w THEN Null ELSE s.previousTitle
        t == [s EXCEPT !.titles = rest, !.previousTitle = pt]
    IN  IF i = -1 THEN s
        ELSE IF ci # i
             THEN [t EXCEPT !.currentIndex = IF ci > i THEN ci - 1 ELSE ci]
        ELSE IF Len(rest) = 0
             THEN onCurrentTabChanged([t EXCEPT !.currentIndex = -1], -1)
        ELSE IF pt # Null
             THEN onCurrentTabChanged(
                      [t EXCEPT !.currentIndex = IndexOf(rest, pt), !.previousTitle = Null],
                      IndexOf(rest, pt))
        ELSE onCurrentTabChanged(
                 [t EXCEPT !.currentIndex = Min(i, Len(rest) - 1)],
                 Min(i, Len(rest) - 1))

\* The index onWidgetAdded computes for a widget of rank r among the tabs ts.
insertIndex(ranks, ts, r) ==
    IF r # Undefined /\ \E i \in 0..(Len(ts) - 1) :
                            ranks[At(ts, i)] # Undefined /\ ranks[At(ts, i)] > r
    THEN CHOOSE i \in 0..(Len(ts) - 1) :
             /\ ranks[At(ts, i)] # Undefined /\ ranks[At(ts, i)] > r
             /\ \A k \in 0..(i - 1) : ~(ranks[At(ts, k)] # Undefined /\ ranks[At(ts, k)] > r)
    ELSE Len(ts)

RECURSIVE onWidgetAdded(_, _)

\* TheiaDockPanel.addWidget
dockAddWidget(s, w) ==
    IF Contains(s.dockTitles, w)
    THEN s
    ELSE onWidgetAdded(dockInsert(s, w), w)

\* a handler that does not listen to tabAdded
onTabAddedIgnored(s, w) == s

onTabAdded(s, w) ==
    IF ~Contains(s.dockTitles, w) THEN dockAddWidget(s, w) ELSE s

\* SideTabBar.insertTab
insertTab(s, index, w) == onTabAdded(TabBarInsertTab(s, index, w), w)

onWidgetAdded(s, w) ==
    IF ~Contains(s.titles, w)
    THEN refreshVisibility(insertTab(s, insertIndex(s.rank, s.titles, s.rank[w]), w))
    ELSE s

onWidgetRemoved(s, w) == refreshVisibility(TabBarRemoveTab(s, w))

\* TheiaDockPanel.onChildRemoved: the widget's parent changes (close, dispose,
\* or another panel adopts it).
onChildRemoved(s, w) == onWidgetRemoved(dockRemove(s, w), w)

onWidgetActivated(s, w) == setCurrentTitle(s, w)

\* DockPanel.activateWidget as overridden by TheiaDockPanel
activateWidget(s, w) == onWidgetActivated(dockSelectWidget(s, w), w)

\* SidePanelHandler.addWidget; r = Undefined stands for options without a rank
addWidget(s, w, r) ==
    dockAddWidget(IF r # Undefined /\ r # 0 THEN [s EXCEPT !.rank[w] = r] ELSE s, w)

\* The widget expand(id) finds: the first widget of the dock panel with that id.
findWidget(s, id) ==
    IF \E k \in 1..Len(s.dockTitles) : s.dockTitles[k] = id THEN id ELSE Null

\* expand that selects the tab of whatever findWidget returned
expandUnchecked(s, id) ==
    IF id # Null
    THEN setCurrentTitle(s, id)
    ELSE IF Len(s.titles) > 0 /\ currentTitle(s) = Null
         THEN setCurrentIndex(s, Max(0, Min(s.lastActiveTabIndex, Len(s.titles) - 1)))
         ELSE s

\* SidePanelHandler.expand; id = Null stands for a missing or empty id
expand(s, id) ==
    IF id # Null
    THEN IF findWidget(s, id) # Null THEN setCurrentTitle(s, findWidget(s, id)) ELSE s
    ELSE IF Len(s.titles) > 0 /\ currentTitle(s) = Null
         THEN LET l == s.lastActiveTabIndex
                  index == IF l < 0 THEN 0
                           ELSE IF l >= Len(s.titles) THEN Len(s.titles) - 1
                           ELSE l
              IN  setCurrentIndex(s, index)
         ELSE s

\* What expand returns.
expandResult(s, id) ==
    IF id # Null
    THEN findWidget(s, id)
    ELSE IF Len(s.titles) > 0 /\ currentTitle(s) = Null
         THEN currentTitle(expand(s, id))
         ELSE Null

\* a collapse that clears the current index without the currentChanged signal
collapseSilently(s) == [s EXCEPT !.currentIndex = -1]

\* SidePanelHandler.collapse
collapse(s) == setCurrentTitle(s, Null)

\* ------------------------------------------------------------- Init
NoState == [defined |-> FALSE, isExpanded |-> FALSE]

NoOp == [name |-> "create", arg |-> Null, ret |-> Null]

\* SidePanelHandler.create
Created ==
    refreshVisibility(
        [titles |-> <<>>, currentIndex |-> -1, previousTitle |-> Null,
         lastActiveTabIndex |-> -1, dockTitles |-> <<>>, dockCurrent |-> -1,
         tabBarHidden |-> FALSE, dockHidden |-> FALSE, containerHidden |-> FALSE,
         collapsed |-> FALSE, rank |-> [w \in Widgets |-> Undefined],
         thrown |-> FALSE, lastCurrent |-> Null])

\* the handler is in state t, no drag is in progress
PanelIs(t) ==
    /\ titles = t.titles
    /\ currentIndex = t.currentIndex
    /\ previousTitle = t.previousTitle
    /\ lastActiveTabIndex = t.lastActiveTabIndex
    /\ dockTitles = t.dockTitles
    /\ dockCurrent = t.dockCurrent
    /\ tabBarHidden = t.tabBarHidden
    /\ dockHidden = t.dockHidden
    /\ containerHidden = t.containerHidden
    /\ collapsed = t.collapsed
    /\ rank = t.rank
    /\ thrown = t.thrown
    /\ lastCurrent = t.lastCurrent
    /\ dragKind = "none"
    /\ draggedWidget = Null
    /\ closureState = NoState
    /\ previousSideBarState = NoState
    /\ framesPending = 0
    /\ lastOp = NoOp
    /\ givenRank = [w \in Widgets |-> Undefined]
    /\ addOrder = <<>>

InitPanel == PanelIs(Created)

\* ------------------------------------------- layout data, drags, drops
\* SidePanelHandler.getLayoutData
getLayoutData(s) ==
    [k \in 1..Len(s.titles) |->
        [widget |-> s.titles[k], rank |-> s.rank[s.titles[k]],
         expanded |-> s.titles[k] = currentTitle(s)]]

RECURSIVE addItems(_, _)

\* the loop of setLayoutData over layoutData.items
addItems(s, items) ==
    IF Len(items) = 0
    THEN s
    ELSE LET item == Head(items)
             t == addWidget(s, item.widget, item.rank)
         IN  addItems(IF item.expanded THEN setCurrentTitle(t, item.widget) ELSE t,
                      Tail(items))

\* SidePanelHandler.setLayoutData
setLayoutData(s, layoutData) ==
    refreshVisibility(addItems(setCurrentTitle(s, Null), layoutData))

\* The state showAllSideBars records for the handler.
sideBarState(s) == [defined |-> TRUE, isExpanded |-> currentTitle(s) # Null]

\* SidePanelHandler.showAllSideBars, for this handler
showAllSideBars(s) ==
    IF Len(s.titles) > 0
    THEN expand(s, Null)
    ELSE [s EXCEPT !.containerHidden = FALSE, !.tabBarHidden = FALSE]

\* SidePanelHandler.resetAllSideBars, for this handler
resetAllSideBars(s, state, activeTitle) ==
    refreshVisibility(
        IF state.defined
        THEN IF state.isExpanded
             THEN expand(s, Null)
             ELSE IF activeTitle = Null \/ currentTitle(s) # activeTitle
                  THEN collapse(s)
                  ELSE s
        ELSE s)

\* SideTabBar.onDrop
onDrop(s, w) ==
    IF Len(s.titles) > 0
    THEN s
    ELSE setCurrentTitle(insertTab(s, Len(s.titles), w), w)

\* DockPanel's drop handler on the side dock panel
dockDrop(s, w) == activateWidget(dockAddWidget(s, w), w)

\* The end of a drag: the `then` of drag.start in onTabDetachRequested, or the
\* `_drag = null` of TheiaDockPanel.
dragCompleted(s) ==
    resetAllSideBars(s,
                     IF dragKind = "tab" THEN closureState ELSE previousSideBarState,
                     draggedWidget)

Op(name, arg, ret) == [name |-> name, arg |-> arg, ret |-> ret]

\* --------------------------------------------------------- API actions
AddWidgetStep(w, r) ==
    /\ SetSt(addWidget(St, w, r))
    /\ lastOp' = Op("addWidget", w, Null)
    /\ UNCHANGED dragVars

AddWidget ==
    \E w \in Widgets, r \in Ranks \cup {Undefined} :
        AddWidgetStep(w, r) /\ UNCHANGED unrelated

Expand ==
    /\ SetSt(expand(St, Null))
    /\ lastOp' = Op("expand", Null, expandResult(St, Null))
    /\ UNCHANGED <<dragVars, unrelated>>

ExpandId ==
    \E id \in Ids :
        /\ SetSt(expand(St, id))
        /\ lastOp' = Op("expandId", id, expandResult(St, id))
        /\ UNCHANGED <<dragVars, unrelated>>

\* activate(id): expand(id), then widget.activate(), which moves the focus only
Activate ==
    \E id \in Ids :
        /\ SetSt(expand(St, id))
        /\ lastOp' = Op("activate", id, expandResult(St, id))
        /\ UNCHANGED <<dragVars, unrelated>>

Collapse ==
    /\ SetSt(collapse(St))
    /\ lastOp' = Op("collapse", Null, Null)
    /\ UNCHANGED <<dragVars, unrelated>>

RemoveStep(w, name) ==
    /\ Contains(dockTitles, w)
    /\ SetSt(onChildRemoved(St, w))
    /\ lastOp' = Op(name, w, Null)
    /\ UNCHANGED dragVars

\* widget.close()
CloseWidget == \E w \in Widgets : RemoveStep(w, "close") /\ UNCHANGED unrelated

\* another panel adopts the widget (widget.parent changes)
ReparentWidget == \E w \in Widgets : RemoveStep(w, "reparent") /\ UNCHANGED unrelated

\* The layout is saved and restored into a newly created handler.
RestoreLayout ==
    /\ dragKind = "none"
    /\ framesPending = 0
    /\ SetSt(setLayoutData([Created EXCEPT !.rank = rank], getLayoutData(St)))
    /\ lastOp' = Op("setLayoutData", Null, Null)
    /\ previousSideBarState' = NoState
    /\ UNCHANGED <<dragKind, draggedWidget, closureState, framesPending, unrelated>>

\* ------------------------------------------------- side tab bar events
TabBarShown == ~tabBarHidden /\ ~containerHidden /\ dragKind = "none"

\* left mouse button pressed on a tab: TabBar selects it
TabPress ==
    \E i \in 0..(Len(titles) - 1) :
        /\ TabBarShown
        /\ SetSt(setCurrentIndex(St, i))
        /\ lastOp' = Op("tabPress", At(titles, i), Null)
        /\ UNCHANGED <<dragVars, unrelated>>

\* the pressed (hence current) tab is dragged to another position of the bar
TabMove ==
    \E j \in 0..(Len(titles) - 1) :
        /\ TabBarShown
        /\ currentIndex >= 0
        /\ j # currentIndex
        /\ SetSt([St EXCEPT !.titles = ArrayMove(titles, currentIndex, j),
                            !.currentIndex = j])
        /\ lastOp' = Op("tabMove", At(titles, currentIndex), Null)
        /\ UNCHANGED <<dragVars, unrelated>>

\* click on the close icon of a tab: onTabCloseRequested
TabClose ==
    \E i \in 0..(Len(titles) - 1) :
        /\ TabBarShown
        /\ Contains(dockTitles, At(titles, i))
        /\ SetSt(onChildRemoved(St, At(titles, i)))
        /\ lastOp' = Op("tabClose", At(titles, i), Null)
        /\ UNCHANGED <<dragVars, unrelated>>

\* click on the current tab: onCollapseRequested
TabCollapse ==
    /\ TabBarShown
    /\ currentIndex >= 0
    /\ SetSt(collapse(St))
    /\ lastOp' = Op("collapseRequested", currentTitle(St), Null)
    /\ UNCHANGED <<dragVars, unrelated>>

\* the pressed (hence current) tab is dragged out of the bar: onTabDetachRequested
TabDetach ==
    /\ TabBarShown
    /\ currentIndex >= 0
    /\ SetSt(showAllSideBars(St))
    /\ dragKind' = "tab"
    /\ draggedWidget' = currentTitle(St)
    /\ closureState' = sideBarState(St)
    /\ lastOp' = Op("tabDetach", currentTitle(St), Null)
    /\ UNCHANGED <<previousSideBarState, framesPending, unrelated>>

\* ------------------------------------------------------ TheiaDockPanel
\* `_drag = drag` of a TheiaDockPanel elsewhere: a widget outside this panel
DragStart ==
    \E w \in Widgets :
        /\ dragKind = "none"
        /\ ~Contains(dockTitles, w)
        /\ framesPending < MaxPendingFrames
        /\ dragKind' = "dock"
        /\ draggedWidget' = w
        /\ framesPending' = framesPending + 1
        /\ lastOp' = Op("dragStart", w, Null)
        /\ UNCHANGED <<panelVars, closureState, previousSideBarState, unrelated>>

\* the requestAnimationFrame callback of the _drag setter
AnimationFrame ==
    /\ framesPending > 0
    /\ framesPending' = framesPending - 1
    /\ previousSideBarState' = sideBarState(St)
    /\ SetSt(showAllSideBars(St))
    /\ lastOp' = Op("animationFrame", Null, Null)
    /\ UNCHANGED <<dragKind, draggedWidget, closureState, unrelated>>

\* The drag ends: what the drop did, then the completion of the drag.
DragEnd(afterDrop, name) ==
    /\ dragKind # "none"
    /\ SetSt(dragCompleted(afterDrop))
    /\ dragKind' = "none"
    /\ draggedWidget' = Null
    /\ closureState' = NoState
    /\ previousSideBarState' = IF dragKind = "dock" THEN NoState ELSE previousSideBarState
    /\ lastOp' = Op(name, draggedWidget, Null)
    /\ UNCHANGED <<framesPending, unrelated>>

DropOnSideBar ==
    /\ ~tabBarHidden /\ ~containerHidden
    /\ DragEnd(onDrop(St, draggedWidget), "dropOnSideBar")

DropIntoDock ==
    /\ ~dockHidden /\ ~containerHidden
    /\ DragEnd(dockDrop(St, draggedWidget), "dropIntoDock")

\* dropped on another panel, which adopts the widget
DropElsewhere ==
    DragEnd(IF Contains(dockTitles, draggedWidget)
            THEN onChildRemoved(St, draggedWidget)
            ELSE St,
            "dropElsewhere")

\* released over no drop target, or Escape
DragCancel == DragEnd(St, "dragCancel")

\* -------------------------------------------------------- LabelProvider
NumContributions == 2
MaxPriority == 2

\* what canHandle(element) may return; 0 is "cannot handle"
Priorities == 0..MaxPriority

LabelMethods == {"getIcon", "getName", "getLongName"}

\* A contribution: its canHandle(element) and the optional methods it defines.
Contribution == [priority : Priorities, methods : SUBSET LabelMethods]

\* the answer of no contribution
NoContribution == 0

\* Prioritizeable.prioritizeAllSync: the contributions of priority > 0, the
\* highest priority first; the order among equal priorities is not determined.
prioritizeAllSync(cs) ==
    LET valid == {c \in 1..Len(cs) : cs[c].priority > 0}
        n == Cardinality(valid)
    IN  {p \in [1..n -> valid] :
            /\ \A a \in 1..n : \A b \in 1..n : a # b => p[a] # p[b]
            /\ \A a \in 1..n : \A b \in 1..n :
                   a < b => cs[p[a]].priority >= cs[p[b]].priority}

\* LabelProvider.findContribution, for one outcome of the sort
findContribution(cs) == prioritizeAllSync(cs)

\* a search that keeps the last contribution defining the method
findDefiningLast(cs, contribs, method) ==
    IF \E k \in 1..Len(contribs) : method \in cs[contribs[k]].methods
    THEN contribs[CHOOSE k \in 1..Len(contribs) :
                      /\ method \in cs[contribs[k]].methods
                      /\ \A m \in (k + 1)..Len(contribs) : method \notin cs[contribs[m]].methods]
    ELSE NoContribution

\* contribs.find(c => c.getX !== undefined): 0 when there is none
findDefining(cs, contribs, method) ==
    IF \E k \in 1..Len(contribs) : method \in cs[contribs[k]].methods
    THEN contribs[CHOOSE k \in 1..Len(contribs) :
                      /\ method \in cs[contribs[k]].methods
                      /\ \A m \in 1..(k - 1) : method \notin cs[contribs[m]].methods]
    ELSE NoContribution

\* an answer: the contribution that gave it and the text
Answer(by, text) == [by |-> by, text |-> text]

\* the text a contribution returns for the element
ContributedText(c, method) == "contributed"

getIcon(cs, contribs) ==
    LET contrib == findDefining(cs, contribs, "getIcon")
    IN  IF contrib = NoContribution
        THEN Answer(NoContribution, "")
        ELSE Answer(contrib, ContributedText(contrib, "getIcon"))

getName(cs, contribs) ==
    LET contrib == findDefining(cs, contribs, "getName")
    IN  IF contrib = NoContribution
        THEN Answer(NoContribution, "<unknown>")
        ELSE Answer(contrib, ContributedText(contrib, "getName"))

getLongName(cs, contribs) ==
    LET contrib == findDefining(cs, contribs, "getLongName")
    IN  IF contrib = NoContribution
        THEN Answer(NoContribution, "")
        ELSE Answer(contrib, ContributedText(contrib, "getLongName"))

\* DefaultUriLabelProviderContribution, asked about a URI
DefaultContributions == <<[priority |-> 1, methods |-> LabelMethods]>>

InitLabel ==
    /\ contributions = DefaultContributions
    /\ labelCall = "none"
    /\ labelResult = Answer(NoContribution, "")

GetIcon ==
    \E contribs \in findContribution(contributions) :
        /\ labelCall' = "getIcon"
        /\ labelResult' = getIcon(contributions, contribs)
        /\ UNCHANGED <<contributions, panelVars, dragVars, lastOp, rankHistory, gitVars,
                       mouseVars, previewVars>>

GetName ==
    \E contribs \in findContribution(contributions) :
        /\ labelCall' = "getName"
        /\ labelResult' = getName(contributions, contribs)
        /\ UNCHANGED <<contributions, panelVars, dragVars, lastOp, rankHistory, gitVars,
                       mouseVars, previewVars>>

GetLongName ==
    \E contribs \in findContribution(contributions) :
        /\ labelCall' = "getLongName"
        /\ labelResult' = getLongName(contributions, contribs)
        /\ UNCHANGED <<contributions, panelVars, dragVars, lastOp, rankHistory, gitVars,
                       mouseVars, previewVars>>

\* ------------------------------------------- GitDiffService.getRangeArg
MaxGeneration == 11

Revisions == {"", "master", "v1.0", "HEAD~3"}

FromRevisions == {"", "origin", "abc123"}

\* GitLogOptions, or no options at all (given = FALSE); fields that are
\* absent hold "" or 0 and are not read
GitLogOptions ==
    {[given |-> FALSE, hasTo |-> FALSE, toRevision |-> "", from |-> "undefined",
      fromNumber |-> 0, fromString |-> ""]}
    \cup {[given |-> TRUE, hasTo |-> FALSE, toRevision |-> "", from |-> "undefined",
           fromNumber |-> 0, fromString |-> ""]}
    \cup {[given |-> TRUE, hasTo |-> TRUE, toRevision |-> r, from |-> "undefined",
           fromNumber |-> 0, fromString |-> ""] : r \in Revisions}
    \cup {[given |-> TRUE, hasTo |-> h, toRevision |-> IF h THEN r ELSE "",
           from |-> "number", fromNumber |-> n, fromString |-> ""] :
              h \in BOOLEAN, r \in Revisions, n \in 0..MaxGeneration}
    \cup {[given |-> TRUE, hasTo |-> h, toRevision |-> IF h THEN r ELSE "",
           from |-> "string", fromNumber |-> 0, fromString |-> f] :
              h \in BOOLEAN, r \in Revisions, f \in FromRevisions}

DecimalDigits == <<"0", "1", "2", "3", "4", "5", "6", "7", "8", "9">>

RECURSIVE numberToString(_)

\* `${n}` for an integer n >= 0
numberToString(n) ==
    IF n < 10
    THEN DecimalDigits[n + 1]
    ELSE numberToString(n \div 10) \o DecimalDigits[(n % 10) + 1]

\* a range that takes toRevision whenever the property is present
getRangeArgAnyTo(options) ==
    LET range == IF options.given /\ options.hasTo THEN options.toRevision ELSE "HEAD"
    IN  IF ~options.given THEN "HEAD"
        ELSE IF options.from = "number"
             THEN range \o "~" \o numberToString(options.fromNumber) \o ".." \o range
        ELSE IF options.from = "string"
             THEN options.fromString \o "~1.." \o range
        ELSE range

\* GitDiffService.getRangeArg
getRangeArg(options) ==
    LET head == "HEAD"
        range == IF options.given /\ options.hasTo /\ options.toRevision # ""
                 THEN options.toRevision
                 ELSE head
    IN  IF ~options.given THEN head
        ELSE IF options.from = "number"
             THEN range \o "~" \o numberToString(options.fromNumber) \o ".." \o range
        ELSE IF options.from = "string"
             THEN options.fromString \o "~1.." \o range
        ELSE range

InitGit ==
    /\ gitOptions = [given |-> FALSE, hasTo |-> FALSE, toRevision |-> "",
                     from |-> "undefined", fromNumber |-> 0, fromString |-> ""]
    /\ gitRange = ""
    /\ gitDone = FALSE

GetRangeArg ==
    /\ ~gitDone
    /\ gitRange' = getRangeArg(gitOptions)
    /\ gitDone' = TRUE
    /\ UNCHANGED <<gitOptions, panelVars, dragVars, lastOp, rankHistory, labelVars,
                   mouseVars, previewVars>>

\* ---------------------------------------------- SideTabBar mouse events
\* MouseEvent.button: 0 left, 1 middle
Buttons == {0, 1}

\* the bar handled a mouse or key event
MouseOp == [name |-> "mouse", arg |-> Null, ret |-> Null]

\* TabBar._dragData === null
NoDragData == [index |-> -1, dragActive |-> FALSE, dropping |-> FALSE]

\* The slot of the bar under the pointer (-1: none) and whether the pointer is
\* on the close icon of the tab in that slot.
PointerPositions ==
    {[tab |-> k, icon |-> i] : k \in -1..(NumWidgets - 1), i \in BOOLEAN}
        \ {[tab |-> -1, icon |-> TRUE]}

\* ArrayExt.findFirstIndex(tabs, tab => ElementExt.hitTest(tab, clientX, clientY))
hitTest(ts, p) == IF p.tab < Len(ts) THEN p.tab ELSE -1

NoMouseEvent ==
    [type |-> "none", button |-> 0, hit |-> -1, emitted |-> FALSE,
     threw |-> FALSE, passedOn |-> FALSE, tick |-> FALSE]

\* SideTabBar.onMouseDown: the armed index it leaves, and whether it threw
\* (tabs[index] is undefined for index -1)
onMouseDown(s, armed, data, button, p) ==
    LET index == hitTest(s.titles, p)
        same == [mouseDownTabIndex |-> armed, threw |-> FALSE]
    IN  IF button # 0 \/ data.index # -1 THEN same
        ELSE IF index # s.currentIndex THEN same
        ELSE IF index = -1 THEN [mouseDownTabIndex |-> armed, threw |-> TRUE]
        ELSE IF p.icon THEN same
        ELSE [mouseDownTabIndex |-> index, threw |-> FALSE]

\* TabBar's mousedown handler (super.handleEvent): a left press on a tab holds
\* the mouse and, unless on the close icon, selects the tab.
evtMouseDown(s, data, listeners, button, p) ==
    LET index == hitTest(s.titles, p)
    IN  IF button # 0 \/ data.index # -1 \/ index = -1
        THEN [s |-> s, data |-> data, listeners |-> listeners]
        ELSE IF p.icon
             THEN [s |-> s, data |-> [NoDragData EXCEPT !.index = index],
                   listeners |-> {"mouseup"}]
        ELSE [s |-> setCurrentIndex(s, index),
              data |-> [NoDragData EXCEPT !.index = index],
              listeners |-> {"mouseup", "mousemove", "keydown"}]

\* SidePanelHandler.onTabCloseRequested: title.owner.close()
onTabCloseRequested(s, w) ==
    IF Contains(s.dockTitles, w) THEN onChildRemoved(s, w) ELSE s

\* TabBar's mouseup handler: a left or middle release lets go of the mouse; on
\* the pressed tab, a middle release or one on the close icon asks to close.
evtMouseUp(s, data, listeners, button, p) ==
    LET index == hitTest(s.titles, p)
    IN  IF button \notin {0, 1} \/ data.index = -1
        THEN [s |-> s, data |-> data, listeners |-> listeners]
        ELSE IF ~data.dragActive
             THEN [s |-> IF index = data.index /\ (button = 1 \/ p.icon)
                         THEN onTabCloseRequested(s, At(s.titles, index))
                         ELSE s,
                   data |-> NoDragData, listeners |-> {}]
        ELSE IF button # 0
             THEN [s |-> s, data |-> data, listeners |-> {}]
        ELSE [s |-> s, data |-> [data EXCEPT !.dropping = TRUE], listeners |-> {}]

\* SidePanelHandler.onCollapseRequested
onCollapseRequested(s) == collapse(s)

\* SideTabBar.onMouseUp
onMouseUp(s, armed, button, p) ==
    LET index == hitTest(s.titles, p)
    IN  IF button # 0
        THEN [s |-> s, mouseDownTabIndex |-> armed, emitted |-> FALSE]
        ELSE IF index < 0 \/ index # armed
             THEN [s |-> s, mouseDownTabIndex |-> -1, emitted |-> FALSE]
        ELSE [s |-> onCollapseRequested(s), mouseDownTabIndex |-> -1, emitted |-> TRUE]

\* SideTabBar.onMouseMove; the button of a mousemove event is 0
onMouseMove(armed, button) == IF button # 0 THEN armed ELSE -1

\* TabBar._adjustCurrentForMove
adjustCurrentForMove(ci, i, j) ==
    IF ci = i THEN j
    ELSE IF ci < i /\ ci >= j THEN ci + 1
    ELSE IF ci > i /\ ci <= j THEN ci - 1
    ELSE ci

InitMouse ==
    /\ mouseDownTabIndex = -1
    /\ tabDragData = NoDragData
    /\ docListeners = {}
    /\ buttonsDown = {}
    /\ pointer = [tab |-> -1, icon |-> FALSE]
    /\ mouseEvent = NoMouseEvent
    /\ qualified = -1

\* the panel's state is left to the other side panel operations
MouseFrame == UNCHANGED <<dragVars, rankHistory, labelVars, gitVars, previewVars>>

\* 'mousedown' on the bar's node: SideTabBar.onMouseDown, then TabBar's handler
MouseDown ==
    \E button \in Buttons :
        LET hit == hitTest(titles, pointer)
            own == onMouseDown(St, mouseDownTabIndex, tabDragData, button, pointer)
            base == evtMouseDown(St, tabDragData, docListeners, button, pointer)
        IN  /\ ~tabBarHidden /\ ~containerHidden /\ dragKind = "none"
            /\ button \notin buttonsDown
            /\ buttonsDown' = buttonsDown \cup {button}
            /\ mouseDownTabIndex' = own.mouseDownTabIndex
            /\ IF own.threw
               THEN UNCHANGED <<panelVars, tabDragData, docListeners>>
               ELSE /\ SetSt(base.s)
                    /\ tabDragData' = base.data
                    /\ docListeners' = base.listeners
            /\ mouseEvent' = [type |-> "mousedown", button |-> button, hit |-> hit,
                              emitted |-> FALSE, threw |-> own.threw,
                              passedOn |-> ~own.threw, tick |-> ~mouseEvent.tick]
            /\ qualified' = IF button # 0 THEN qualified
                            ELSE IF hit >= 0 /\ hit = currentIndex /\ ~pointer.icon
                                    /\ tabDragData.index = -1
                                 THEN hit
                                 ELSE -1
            /\ lastOp' = MouseOp
            /\ UNCHANGED pointer
            /\ MouseFrame

\* 'mouseup' on the document while the bar holds the mouse: TabBar's handler,
\* then SideTabBar.onMouseUp
MouseUp ==
    \E button \in Buttons :
        LET hit == hitTest(titles, pointer)
            base == evtMouseUp(St, tabDragData, docListeners, button, pointer)
            own == onMouseUp(base.s, mouseDownTabIndex, button, pointer)
        IN  /\ "mouseup" \in docListeners
            /\ button \in buttonsDown
            /\ buttonsDown' = buttonsDown \ {button}
            /\ SetSt(own.s)
            /\ tabDragData' = base.data
            /\ docListeners' = base.listeners
            /\ mouseDownTabIndex' = own.mouseDownTabIndex
            /\ mouseEvent' = [type |-> "mouseup", button |-> button, hit |-> hit,
                              emitted |-> own.emitted, threw |-> FALSE,
                              passedOn |-> TRUE, tick |-> ~mouseEvent.tick]
            /\ qualified' = IF button = 0 THEN -1 ELSE qualified
            /\ lastOp' = MouseOp
            /\ UNCHANGED pointer
            /\ MouseFrame

\* a button is released while the bar does not hold the mouse: no handler runs
MouseUpUnheard ==
    \E button \in buttonsDown :
        /\ "mouseup" \notin docListeners
        /\ buttonsDown' = buttonsDown \ {button}
        /\ qualified' = IF button = 0 THEN -1 ELSE qualified
        /\ UNCHANGED <<panelVars, mouseDownTabIndex, tabDragData, docListeners, pointer,
                       mouseEvent, lastOp>>
        /\ MouseFrame

\* The pointer moves within the bar.  While the bar listens to 'mousemove':
\* SideTabBar.onMouseMove, then TabBar's handler, which may start moving the tab.
PointerMove ==
    \E p \in PointerPositions, starts \in BOOLEAN :
        /\ p # pointer
        /\ pointer' = p
        /\ IF "mousemove" \in docListeners
           THEN /\ mouseDownTabIndex' = onMouseMove(mouseDownTabIndex, 0)
                /\ tabDragData' = IF tabDragData.index # -1 /\ starts
                                  THEN [tabDragData EXCEPT !.dragActive = TRUE]
                                  ELSE tabDragData
                /\ mouseEvent' = [type |-> "mousemove", button |-> 0,
                                  hit |-> hitTest(titles, p), emitted |-> FALSE,
                                  threw |-> FALSE, passedOn |-> TRUE,
                                  tick |-> ~mouseEvent.tick]
                /\ qualified' = -1
           ELSE /\ ~starts
                /\ UNCHANGED <<mouseDownTabIndex, tabDragData, mouseEvent, qualified>>
        /\ UNCHANGED <<panelVars, docListeners, buttonsDown, lastOp>>
        /\ MouseFrame

\* Escape while the bar holds the mouse: TabBar releases it (no hook of SideTabBar)
KeyEscape ==
    /\ "keydown" \in docListeners
    /\ tabDragData' = NoDragData
    /\ docListeners' = {}
    /\ mouseEvent' = [type |-> "keydown", button |-> 0, hit |-> -1, emitted |-> FALSE,
                      threw |-> FALSE, passedOn |-> TRUE, tick |-> ~mouseEvent.tick]
    /\ UNCHANGED <<panelVars, mouseDownTabIndex, buttonsDown, pointer, qualified, lastOp>>
    /\ MouseFrame

\* the timer of a left release after a move: the tab takes its new position
TabDropped ==
    \E j \in 0..(Len(titles) - 1) :
        /\ tabDragData.dropping
        /\ tabDragData' = NoDragData
        /\ IF tabDragData.index < Len(titles) /\ j # tabDragData.index
           THEN SetSt([St EXCEPT
                          !.titles = ArrayMove(titles, tabDragData.index, j),
                          !.currentIndex =
                              adjustCurrentForMove(currentIndex, tabDragData.index, j)])
           ELSE UNCHANGED panelVars
        /\ UNCHANGED <<mouseDownTabIndex, docListeners, buttonsDown, pointer, mouseEvent,
                       qualified, lastOp>>
        /\ MouseFrame

RECURSIVE addAll(_, _)

\* addWidget(w) for the widgets w, w + 1, ...
addAll(s, w) == IF w > NumWidgets THEN s ELSE addAll(addWidget(s, w, Undefined), w + 1)

\* a side panel to which every widget was added
Populated == addAll(Created, 1)

\* ------------------------------------------- PreviewWidget scroll sync
\* Time is counted in ticks of 12.5 ms.  Running an exec of a throttle takes one
\* tick, so that no two of them read the same time and no two timers counted
\* from different moments fall due together.
MaxTime == 10

\* the 50 ms of the two throttles and of the timer, in ticks
ThrottleDelay == 4

\* a scroll event is dispatched with the next frame: at most so many ticks late
MaxScrollLatency == 2

\* lastExec of a throttle that has not run yet
LongAgo == 0 - (ThrottleDelay + 1)

NoScroll == [cause |-> "none", since |-> 0]

\* clearTimeout(timeoutID) of the throttle of that kind
clearTimeout(ts, kind) == SelectSeq(ts, LAMBDA x : x.kind # kind)

\* the state of the scroll synchronisation, as one record
Sync ==
    [preventScrollNotification |-> preventScrollNotification,
     scrollThrottle |-> scrollThrottle, revealThrottle |-> revealThrottle,
     timers |-> timers, pendingScroll |-> pendingScroll, didScrollFor |-> didScrollFor]

\* the state after a step of the program; the time is one tick later if a
\* throttle executed
SetSync(y) ==
    /\ now' = IF y.scrollThrottle # scrollThrottle \/ y.revealThrottle # revealThrottle
              THEN now + 1
              ELSE now
    /\ preventScrollNotification' = y.preventScrollNotification
    /\ scrollThrottle' = y.scrollThrottle
    /\ revealThrottle' = y.revealThrottle
    /\ timers' = y.timers
    /\ pendingScroll' = y.pendingScroll
    /\ didScrollFor' = y.didScrollFor

\* the callback of startScrollSync, for a scroll event of that cause
scrollCallback(y, cause) ==
    IF y.preventScrollNotification
    THEN y
    ELSE [y EXCEPT !.didScrollFor = @ \cup {cause}]

\* The throttled wrapper of the scroll callback, called with a scroll event; an
\* exec of a throttle records the time and runs the callback.
throttledScroll(y, cause) ==
    LET elapsed == now - y.scrollThrottle
        cleared == [y EXCEPT !.timers = clearTimeout(@, "scroll")]
    IN  IF elapsed > ThrottleDelay
        THEN scrollCallback([cleared EXCEPT !.scrollThrottle = now], cause)
        ELSE [cleared EXCEPT
                 !.timers = Append(@, [kind |-> "scroll", due |-> now + ThrottleDelay - elapsed,
                                       cause |-> cause])]

\* the body of internalRevealForSourceLine; the element may not be found, and
\* scrollIntoView may leave the scroll position as it is
reveal(y, found, moves) ==
    IF ~found
    THEN y
    ELSE [y EXCEPT !.preventScrollNotification = TRUE,
                   !.pendingScroll = IF moves
                                     THEN [cause |-> "reveal",
                                           since |-> IF @.cause = "none" THEN now ELSE @.since]
                                     ELSE @,
                   !.timers = Append(@, [kind |-> "clear", due |-> now + ThrottleDelay,
                                         cause |-> "none"])]

\* PreviewWidget.revealForSourceLine: the throttled wrapper
revealForSourceLine(y, found, moves) ==
    LET elapsed == now - y.revealThrottle
        cleared == [y EXCEPT !.timers = clearTimeout(@, "reveal")]
    IN  IF elapsed > ThrottleDelay
        THEN reveal([cleared EXCEPT !.revealThrottle = now], found, moves)
        ELSE [cleared EXCEPT
                 !.timers = Append(@, [kind |-> "reveal", due |-> now + ThrottleDelay - elapsed,
                                       cause |-> "none"])]

InitScroll ==
    /\ now = 0
    /\ preventScrollNotification = FALSE
    /\ scrollThrottle = LongAgo
    /\ revealThrottle = LongAgo
    /\ timers = <<>>
    /\ pendingScroll = NoScroll
    /\ didScrollFor = {}

\* no timer is due: the timers that are due run before anything else does
NoneDue == \A k \in 1..Len(timers) : timers[k].due > now

ScrollFrame ==
    UNCHANGED <<panelVars, dragVars, lastOp, rankHistory, labelVars, gitVars, mouseVars,
                offsetVars>>

\* the user scrolls the preview
UserScroll ==
    /\ pendingScroll.cause = "none"
    /\ pendingScroll' = [cause |-> "user", since |-> now]
    /\ UNCHANGED <<now, preventScrollNotification, scrollThrottle, revealThrottle, timers,
                   didScrollFor>>
    /\ ScrollFrame

\* the editor asks to reveal a source line
RevealForSourceLine ==
    \E found \in BOOLEAN, moves \in BOOLEAN :
        /\ NoneDue
        /\ SetSync(revealForSourceLine(Sync, found, moves))
        /\ ScrollFrame

\* the pending scroll event is dispatched to the throttled listener
DispatchScroll ==
    /\ pendingScroll.cause # "none"
    /\ NoneDue
    /\ SetSync(throttledScroll([Sync EXCEPT !.pendingScroll = NoScroll], pendingScroll.cause))
    /\ ScrollFrame

\* The timer that is due first fires (those due at the same time in the order
\* they were set).
TimerFires ==
    \E k \in 1..Len(timers) :
        LET timer == timers[k]
            rest == [Sync EXCEPT
                        !.timers = SubSeq(@, 1, k - 1) \o SubSeq(@, k + 1, Len(@))]
        IN  /\ timer.due <= now
            /\ \A m \in 1..Len(timers) :
                   m # k => (timer.due < timers[m].due \/ (timer.due = timers[m].due /\ k < m))
            /\ \/ /\ timer.kind = "clear"
                  /\ SetSync([rest EXCEPT !.preventScrollNotification = FALSE])
               \/ /\ timer.kind = "scroll"
                  /\ SetSync(scrollCallback([rest EXCEPT !.scrollThrottle = now], timer.cause))
               \/ /\ timer.kind = "reveal"
                  /\ \E found \in BOOLEAN, moves \in BOOLEAN :
                         SetSync(reveal([rest EXCEPT !.revealThrottle = now], found, moves))
            /\ ScrollFrame

\* time passes: no timer is overdue, and no scroll event waits past the next frame
Tick ==
    /\ now < MaxTime
    /\ NoneDue
    /\ pendingScroll.cause # "none" => now - pendingScroll.since < MaxScrollLatency
    /\ now' = now + 1
    /\ UNCHANGED <<preventScrollNotification, scrollThrottle, revealThrottle, timers,
                   pendingScroll, didScrollFor>>
    /\ ScrollFrame

\* ------------------------------------- MarkdownPreviewHandler, PreviewWidget
MaxElements == 3
MaxTop == 2
MaxLine == 2
MaxOffset == 4

\* element.getAttribute('data-line') as the renderer sets it: line.toString()
DataLines == {numberToString(l) : l \in 0..MaxLine}

\* a 'line' element of the rendered node: its offsetTop and data-line attribute
LineElement == [offsetTop : 0..MaxTop, dataLine : DataLines]

Contents == UNION {[1..n -> LineElement] : n \in 0..MaxElements}

\* a JavaScript value of type number | undefined, or the TypeError thrown instead
Number(n) == [kind |-> "number", value |-> n]

NotANumber == [kind |-> "NaN", value |-> 0]

Infinite(sign) == [kind |-> IF sign > 0 THEN "Infinity" ELSE "-Infinity", value |-> 0]

UndefinedLine == [kind |-> "undefined", value |-> 0]

TypeError == [kind |-> "TypeError", value |-> 0]

NotCalled == [kind |-> "not called", value |-> 0]

\* Number.parseInt of a string of decimal digits
parseInt(str) == CHOOSE n \in 0..MaxLine : numberToString(n) = str

\* MarkdownPreviewHandler.getLineNumberFromAttribute
getLineNumberFromAttribute(element) ==
    IF element.dataLine # "" THEN Number(parseInt(element.dataLine)) ELSE UndefinedLine

\* MarkdownPreviewHandler.getLineElementsAtOffset: the elements the tree walker
\* accepts (all up to the first one below the offset), of which the last two
getLineElementsAtOffset(c, o) ==
    LET below == {k \in 1..Len(c) : c[k].offsetTop > o}
        n == IF below = {} THEN Len(c) ELSE CHOOSE k \in below : \A m \in below : k <= m
    IN  IF n <= 2 THEN SubSeq(c, 1, n) ELSE SubSeq(c, n - 1, n)

\* Math.floor(a * (b / d)) for integers a, b, d, the quotient taken exactly
floorOfProduct(a, b, d) ==
    IF d > 0 THEN Number((a * b) \div d)
    ELSE IF d < 0 THEN Number((0 - a * b) \div (0 - d))
    ELSE IF b = 0 \/ a = 0 THEN NotANumber
    ELSE Infinite(a * b)

\* MarkdownPreviewHandler.getSourceLineForOffset
getSourceLineForOffset(c, o) ==
    LET lineElements == getLineElementsAtOffset(c, o)
    IN  IF Len(lineElements) < 1 THEN UndefinedLine
        ELSE IF Len(lineElements) = 1 THEN TypeError  \* lineElements[1].getAttribute
        ELSE LET firstLineNumber == getLineNumberFromAttribute(lineElements[1])
                 secondLineNumber == getLineNumberFromAttribute(lineElements[2])
                 y1 == lineElements[1].offsetTop
                 y2 == lineElements[2].offsetTop
                 dL == floorOfProduct(secondLineNumber.value - firstLineNumber.value,
                                      o - y1, y2 - y1)
             IN  IF firstLineNumber = UndefinedLine THEN UndefinedLine
                 ELSE IF secondLineNumber = UndefinedLine THEN firstLineNumber
                 ELSE IF dL.kind = "number"
                      THEN Number(firstLineNumber.value + dL.value)
                      ELSE dL

\* `if (line)`
truthy(line) ==
    \/ line.kind = "number" /\ line.value # 0
    \/ line.kind \in {"Infinity", "-Infinity"}

NothingFired == [event |-> "none", line |-> UndefinedLine, onResource |-> FALSE]

\* PreviewWidget.didScroll with the markdown handler: the event it fires
didScroll(c, scrollTop) ==
    LET line == getSourceLineForOffset(c, scrollTop)
    IN  IF truthy(line)
        THEN [event |-> "didScroll", line |-> line, onResource |-> FALSE]
        ELSE NothingFired

\* PreviewWidget.didDoubleClick and fireDidDoubleClickToSourceLine
didDoubleClick(c, offsetTop, resource) ==
    LET line == getSourceLineForOffset(c, offsetTop)
    IN  IF truthy(line) /\ resource
        THEN [event |-> "didDoubleClick", line |-> line, onResource |-> TRUE]
        ELSE NothingFired

InitOffset ==
    /\ content = <<>>
    /\ offset = 0
    /\ hasResource = FALSE
    /\ previewCall = "none"
    /\ sourceLine = NotCalled
    /\ fired = NothingFired

OffsetFrame ==
    UNCHANGED <<panelVars, dragVars, lastOp, rankHistory, labelVars, gitVars, mouseVars,
                now, scrollThrottle, revealThrottle, timers, pendingScroll,
                didScrollFor, preventScrollNotification, content, offset, hasResource>>

\* the throttled callback of the 'scroll' listener runs, scrollTop being offset
ScrollCallback ==
    /\ previewCall = "none"
    /\ previewCall' = "scroll"
    /\ IF preventScrollNotification
       THEN UNCHANGED <<sourceLine, fired>>
       ELSE /\ sourceLine' = getSourceLineForOffset(content, offset)
            /\ fired' = didScroll(content, offset)
    /\ OffsetFrame

\* the 'dblclick' listener runs for a target, inside a link or not, at offset
DoubleClick ==
    \E inLink \in BOOLEAN :
        /\ previewCall = "none"
        /\ previewCall' = IF inLink THEN "dblclick on link" ELSE "dblclick"
        /\ IF inLink
           THEN UNCHANGED <<sourceLine, fired>>
           ELSE /\ sourceLine' = getSourceLineForOffset(content, offset)
                /\ fired' = didDoubleClick(content, offset, hasResource)
        /\ OffsetFrame

InitPreview == InitScroll /\ InitOffset

\* ------------------------------------------------------ specifications
Init == InitPanel /\ InitLabel /\ InitGit /\ InitMouse /\ InitPreview

Next ==
    \/ AddWidget \/ Expand \/ ExpandId \/ Activate \/ Collapse
    \/ CloseWidget \/ ReparentWidget \/ RestoreLayout
    \/ TabPress \/ TabMove \/ TabClose \/ TabCollapse \/ TabDetach
    \/ DragStart \/ AnimationFrame
    \/ DropOnSideBar \/ DropIntoDock \/ DropElsewhere \/ DragCancel

Spec == Init /\ [][Next]_vars

TypeOK ==
    /\ currentIndex \in -1..(Len(titles) - 1)
    /\ dockCurrent \in -1..(Len(dockTitles) - 1)
    /\ lastActiveTabIndex \in -1..NumWidgets
    /\ previousTitle \in Widgets \cup {Null}
    /\ framesPending \in 0..MaxPendingFrames

\* ---------------------------------------------- rank order (adds, removals)
\* addWidget(w, {rank}) for a widget that is not in the panel
AddRanked ==
    \E w \in Widgets, r \in Ranks :
        /\ ~Contains(dockTitles, w)
        /\ AddWidgetStep(w, r)
        /\ givenRank' = [givenRank EXCEPT ![w] = r]
        /\ addOrder' = Append(addOrder, w)
        /\ UNCHANGED <<labelVars, gitVars, mouseVars, previewVars>>

RemoveRanked ==
    \E w \in Widgets :
        /\ RemoveStep(w, "close")
        /\ givenRank' = [givenRank EXCEPT ![w] = Undefined]
        /\ addOrder' = ArrayRemoveAt(addOrder, IndexOf(addOrder, w))
        /\ UNCHANGED <<labelVars, gitVars, mouseVars, previewVars>>

NextRank == AddRanked \/ RemoveRanked

SpecRank == Init /\ [][NextRank]_vars

\* LabelProvider asked about one element, for every set of contributions
InitContributions ==
    /\ InitPanel /\ InitGit /\ InitMouse /\ InitPreview
    /\ contributions \in [1..NumContributions -> Contribution]
    /\ labelCall = "none"
    /\ labelResult = Answer(NoContribution, "")

NextLabel == GetIcon \/ GetName \/ GetLongName

SpecLabel == InitContributions /\ [][NextLabel]_vars

\* getRangeArg, for every GitLogOptions
InitOptions ==
    /\ InitPanel /\ InitLabel /\ InitMouse /\ InitPreview
    /\ gitOptions \in GitLogOptions
    /\ gitRange = ""
    /\ gitDone = FALSE

NextRange == GetRangeArg

SpecRange == InitOptions /\ [][NextRange]_vars

\* the side bar under mouse events, with the panel collapsed, expanded and
\* changed by the program in between
NextMouse ==
    \/ MouseDown \/ MouseUp \/ MouseUpUnheard \/ PointerMove \/ KeyEscape \/ TabDropped
    \/ Collapse \/ ExpandId

InitPopulated ==
    /\ PanelIs(Populated)
    /\ InitLabel /\ InitGit /\ InitMouse /\ InitPreview

SpecMouse == InitPopulated /\ [][NextMouse]_vars

\* the preview asked about one offset, for every content
InitContent ==
    /\ InitPanel /\ InitLabel /\ InitGit /\ InitMouse
    /\ now = 0
    /\ scrollThrottle = LongAgo
    /\ revealThrottle = LongAgo
    /\ timers = <<>>
    /\ pendingScroll = NoScroll
    /\ didScrollFor = {}
    /\ preventScrollNotification \in BOOLEAN
    /\ content \in Contents
    /\ offset \in 0..MaxOffset
    /\ hasResource \in BOOLEAN
    /\ previewCall = "none"
    /\ sourceLine = NotCalled
    /\ fired = NothingFired

NextOffset == ScrollCallback \/ DoubleClick

SpecOffset == InitContent /\ [][NextOffset]_vars

\* the scroll synchronisation of the preview in time
NextScroll == UserScroll \/ RevealForSourceLine \/ DispatchScroll \/ TimerFires \/ Tick

SpecScroll == Init /\ [][NextScroll]_vars

\* ------------------------------------------------------------- claims
\* the tab a widget of rank ranks[w] gets among its siblings
rankedPosition(ranks, ts, w) ==
    LET rest == ArrayRemoveAt(ts, IndexOf(ts, w))
    IN  ArrayInsert(rest, insertIndex(ranks, rest, ranks[w]), w)

\* C1: expand() without an id on a collapsed panel with tabs makes current the
\* tab of the widget that was most recently current, if that widget is still
\* in the panel, and the first tab if no tab was ever current.
C1_ExpandLastActive ==
    [][(lastOp'.name = "expand" /\ currentIndex = -1 /\ Len(titles) > 0)
        => IF lastCurrent = Null
           THEN currentIndex' = 0
           ELSE (Contains(titles, lastCurrent) => currentTitle(St)' = lastCurrent)]_vars

\* C2: addWidget for a widget that is already in the panel moves its tab to the
\* position its rank dictates among its siblings; the widget keeps one tab.
C2_AddWidgetMoves ==
    [][(lastOp'.name = "addWidget" /\ Contains(titles, lastOp'.arg)
            /\ rank'[lastOp'.arg] # Undefined)
        => /\ titles' = rankedPosition(rank', titles, lastOp'.arg)
           /\ Cardinality({k \in 1..Len(titles') : titles'[k] = lastOp'.arg}) = 1]_vars

C4_ExpandById ==
    [][lastOp'.name \in {"expandId", "activate"}
        => IF Contains(dockTitles, lastOp'.arg)
           THEN /\ lastOp'.ret = lastOp'.arg
                /\ currentTitle(St)' = lastOp'.arg
                /\ ~dockHidden' /\ ~collapsed' /\ ~containerHidden' /\ ~tabBarHidden'
                /\ At(dockTitles', dockCurrent') = lastOp'.arg
           ELSE /\ lastOp'.ret = Null
                /\ UNCHANGED <<titles, currentIndex, lastActiveTabIndex,
                               tabBarHidden, dockHidden, containerHidden, collapsed>>]_vars

C4_Witness ==
    /\ lastOp.name = "expandId"
    /\ lastOp.ret # Null
    /\ currentTitle(St) = lastOp.ret
    /\ Len(titles) = NumWidgets
    /\ ~dockHidden

CollapseOps == {"collapse", "collapseRequested"}

\* C5 as stated: when collapse() returns there is no current tab, the dock
\* panel is hidden, the container is marked collapsed, the tabs are unchanged
\* and the tab bar is visible exactly when it has tabs.
C5_CollapseAsStated ==
    [][lastOp'.name \in CollapseOps
        => /\ currentIndex' = -1 /\ dockHidden' /\ collapsed'
           /\ titles' = titles
           /\ (~tabBarHidden' <=> Len(titles') > 0)]_vars

\* C5 amended: as above, but an empty tab bar keeps the visibility it had
\* (showAllSideBars shows the empty bars while a widget is dragged).
C5_Collapse ==
    [][lastOp'.name \in CollapseOps
        => /\ currentIndex' = -1 /\ dockHidden' /\ collapsed'
           /\ titles' = titles
           /\ (Len(titles') > 0 => ~tabBarHidden')
           /\ (Len(titles') = 0 => tabBarHidden' = tabBarHidden)]_vars

C5_Witness ==
    /\ lastOp.name = "collapse"
    /\ Len(titles) = NumWidgets
    /\ lastCurrent # Null
    /\ currentIndex = -1
    /\ dockHidden /\ ~tabBarHidden

\* C6: the layout data of every reachable state, set on a newly created
\* handler, yields the same widgets in the same order and the same expanded
\* widget; at most one item is marked expanded.
C6_LayoutRoundTrip ==
    LET D == getLayoutData(St)
        R == setLayoutData([Created EXCEPT !.rank = rank], D)
        marked == {k \in 1..Len(D) : D[k].expanded}
    IN  /\ R.titles = [k \in 1..Len(D) |-> D[k].widget]
        /\ Cardinality(marked) <= 1
        /\ \A k \in marked : currentTitle(R) = D[k].widget
        /\ marked = {} => currentTitle(R) = Null

\* the contributions that handle the element
Handling == {c \in 1..Len(contributions) : contributions[c].priority > 0}

\* those of them that define the method asked for
Defining == {c \in Handling : labelCall \in contributions[c].methods}

DefaultLabel == IF labelCall = "getName" THEN "<unknown>" ELSE ""

\* the answer is the one of a contribution of highest priority among cands,
\* the default when cands is empty
AnsweredByHighest(cands) ==
    IF cands = {}
    THEN labelResult = Answer(NoContribution, DefaultLabel)
    ELSE /\ labelResult.by \in cands
         /\ \A d \in cands :
                contributions[labelResult.by].priority >= contributions[d].priority
         /\ labelResult.text = ContributedText(labelResult.by, labelCall)

\* C7 as stated: getIcon, getName and getLongName return the answer of the
\* contribution with the highest canHandle value greater than zero, and the
\* defaults ('<unknown>', '') when no contribution handles the element.
C7_HighestWinsAsStated ==
    labelCall # "none"
        => /\ AnsweredByHighest(Handling)
           /\ labelResult.by # NoContribution => labelResult.by \in Handling

\* C7 amended: they return the answer of the contribution with the highest
\* canHandle value greater than zero among those that define the method, and
\* the defaults when no handling contribution defines it; a contribution whose
\* canHandle value is not greater than zero is never asked.
C7_HighestDefiningWins ==
    labelCall # "none"
        => /\ AnsweredByHighest(Defining)
           /\ labelResult.by # NoContribution => labelResult.by \in Handling

C7_Witness ==
    /\ labelCall = "getName"
    /\ contributions[1].priority = MaxPriority
    /\ "getName" \notin contributions[1].methods
    /\ contributions[2].priority = 1
    /\ labelResult = Answer(2, ContributedText(2, "getName"))

\* the revision the range ends at
EndRevision ==
    IF gitOptions.given /\ gitOptions.hasTo /\ gitOptions.toRevision # ""
    THEN gitOptions.toRevision
    ELSE "HEAD"

C11_ClickToCollapse ==
    [][mouseEvent'.tick # mouseEvent.tick
        => /\ mouseEvent'.emitted
                  <=> /\ mouseEvent'.type = "mouseup"
                      /\ mouseEvent'.button = 0
                      /\ mouseEvent'.hit >= 0
                      /\ qualified = mouseEvent'.hit
           /\ (\/ mouseEvent'.type = "mouseup" /\ mouseEvent'.button = 0
               \/ mouseEvent'.type = "mousemove")
                  => mouseDownTabIndex' = -1]_vars

\* C12: a left mousedown that hits no tab leaves mouseDownTabIndex at -1, does
\* not fail and is passed on to the handler of TabBar, in every state.
C12_PressOffTabs ==
    [][(/\ mouseEvent'.tick # mouseEvent.tick
        /\ mouseEvent'.type = "mousedown"
        /\ mouseEvent'.button = 0
        /\ mouseEvent'.hit = -1)
        => /\ ~mouseEvent'.threw
           /\ mouseEvent'.passedOn
           /\ mouseDownTabIndex' = -1]_vars

\* the content's offsetTop and data-line values do not decrease in document order
Ordered(c) ==
    \A k \in 1..(Len(c) - 1) :
        /\ c[k].offsetTop <= c[k + 1].offsetTop
        /\ parseInt(c[k].dataLine) <= parseInt(c[k + 1].dataLine)

\* C13: the throttled scroll callback never calls didScroll for a scroll that
\* revealForSourceLine caused, whatever the timing of the scroll throttle and
\* of the timer that clears preventScrollNotification.
C13_RevealIsSilent == "reveal" \notin didScrollFor

\* C14: whenever the handler resolves the offset to a source line L >= 0 and
\* the notification is not suppressed, onDidScroll fires with L; and a double
\* click outside a link on a widget with a resource fires onDidDoubleClick
\* with a location on line L.
C14_LineIsFired ==
    (sourceLine.kind = "number" /\ sourceLine.value >= 0)
        => /\ previewCall = "scroll"
                  => fired = [event |-> "didScroll", line |-> sourceLine,
                              onResource |-> FALSE]
           /\ (previewCall = "dblclick" /\ hasResource)
                  => fired = [event |-> "didDoubleClick", line |-> sourceLine,
                              onResource |-> TRUE]

\* C15: for ordered content and every offset, getSourceLineForOffset returns
\* undefined when there is no line element and otherwise an integer L with
\* l1 <= L <= l2, l1 the data-line of the last element at or above the offset
\* (of the first element if none is), l2 the data-line of the first element
\* below it (l1 if none is); L is at most the largest data-line.
C15_LineInterpolation ==
    (sourceLine # NotCalled /\ Ordered(content))
        => LET above == {k \in 1..Len(content) : content[k].offsetTop <= offset}
               below == {k \in 1..Len(content) : content[k].offsetTop > offset}
               last == CHOOSE k \in above : \A m \in above : m <= k
               first == CHOOSE k \in below : \A m \in below : k <= m
               l1 == parseInt(content[IF above = {} THEN 1 ELSE last].dataLine)
               l2 == IF below = {} THEN l1 ELSE parseInt(content[first].dataLine)
           IN  IF Len(content) = 0
               THEN sourceLine = UndefinedLine
               ELSE /\ sourceLine.kind = "number"
                    /\ l1 <= sourceLine.value /\ sourceLine.value <= l2
                    /\ \A k \in 1..Len(content) :
                           parseInt(content[k].dataLine) <= parseInt(content[Len(content)].dataLine)
                    /\ sourceLine.value <= parseInt(content[Len(content)].dataLine)

\* C9: with no drag in progress, the tab bar is hidden exactly when it has no
\* tabs, the dock panel exactly when there is no current tab, the container
\* exactly when there is neither; the container is marked collapsed exactly
\* when there is no current tab; the dock panel selects the current tab's owner.
C9_VisibilityRule ==
    dragKind = "none"
        => /\ tabBarHidden <=> Len(titles) = 0
           /\ dockHidden <=> currentIndex = -1
           /\ containerHidden <=> (Len(titles) = 0 /\ currentIndex = -1)
           /\ collapsed <=> currentIndex = -1
           /\ currentIndex >= 0 =>
                  /\ dockCurrent >= 0
                  /\ At(dockTitles, dockCurrent) = currentTitle(St)

\* C10: every widget of the dock panel owns exactly one tab of the side bar and
\* every tab is owned by a widget of the dock panel.
C10_TabsMatchWidgets ==
    /\ \A w \in Widgets :
           /\ Cardinality({k \in 1..Len(titles) : titles[k] = w}) <= 1
           /\ Contains(titles, w) <=> Contains(dockTitles, w)
    /\ ~thrown

C10_Witness ==
    /\ lastOp.name = "dropOnSideBar"
    /\ titles = <<lastOp.arg>>
    /\ dockTitles = <<lastOp.arg>>
    /\ currentIndex = 0

====
